---- MODULE Spec2Model ----
(***************************************************************************)
(* Model of the serverless endpoints functions/api/video.ts (image-to-     *)
(* video submission and the bounded polling loop retrieveUntilDone) and    *)
(* functions/api/chat.ts (tier routing between the two chat backends).     *)
(*                                                                         *)
(* One handler invocation is modelled at a time: every inbound request is  *)
(* handled independently and the handlers share no state.  JavaScript      *)
(* strings are sequences of one-character strings, so that trim(),         *)
(* toUpperCase(), includes(), startsWith(), split() and the data-URL       *)
(* regular expression are computed and not assumed.                        *)
(***************************************************************************)
EXTENDS Integers, Sequences, FiniteSets, TLC

VARIABLES
  pc,           \* where the invocation stands: idle, queue_wait, loop, poll_wait,
                \* sleeping, chat_wait, done
  handler,      \* which onRequestPost runs: "video", "chat" or "none"
  env,          \* the environment secrets (TRUE = configured)
  body,         \* the request body as parsed
  now,          \* the clock, as Date.now() reads it
  started,      \* retrieveUntilDone: const started
  queueId,      \* retrieveUntilDone: opts.queueId
  calls,        \* outbound provider calls issued so far, in order
  polls,        \* number of retrieve calls issued
  sleeps,       \* number of completed sleep(pollEveryMs)
  nProcessing,  \* number of polls answered with a processing status
  queueAnswer,  \* the provider's answer to the queue call, once received
  lastAnswer,   \* the provider's answer to the latest poll, once received
  responses     \* responses returned to the caller

vars == <<pc, handler, env, body, now, started, queueId, calls,
          polls, sleeps, nProcessing, queueAnswer, lastAnswer, responses>>

----------------------------------------------------------------------------
(* Bounds of the model.                                                    *)

\* Date.now() is read on entry to retrieveUntilDone and at the head of each
\* loop iteration only.  Between two reads of consecutive iterations at least
\* pollEveryMs elapse (the sleep); the round trip of the poll and the
\* lateness of the timer may add up to this many ms (0 or this).
MaxExtraDelayMs == 13000

\* number of fields a request body carries at most
MaxPresentFields == 3

----------------------------------------------------------------------------
(* JavaScript strings as sequences of characters.                          *)

Min(S) == CHOOSE x \in S : \A y \in S : x <= y
Max(S) == CHOOSE x \in S : \A y \in S : x >= y

IsWhitespace(c) == c \in {" ", "\t", "\n", "\r"}

LowerLetters == <<"a","b","c","d","e","f","g","h","i","j","k","l","m",
                  "n","o","p","q","r","s","t","u","v","w","x","y","z">>
UpperLetters == <<"A","B","C","D","E","F","G","H","I","J","K","L","M",
                  "N","O","P","Q","R","S","T","U","V","W","X","Y","Z">>
Digits == <<"0","1","2","3","4","5","6","7","8","9">>

Range(f) == {f[i] : i \in DOMAIN f}

UpperChar(c) ==
  IF c \in Range(LowerLetters)
  THEN UpperLetters[CHOOSE i \in 1..26 : LowerLetters[i] = c]
  ELSE c

LowerChar(c) ==
  IF c \in Range(UpperLetters)
  THEN LowerLetters[CHOOSE i \in 1..26 : UpperLetters[i] = c]
  ELSE c

\* String.prototype.toUpperCase / toLowerCase
ToUpperCase(s) == [i \in 1..Len(s) |-> UpperChar(s[i])]
ToLowerCase(s) == [i \in 1..Len(s) |-> LowerChar(s[i])]

\* String.prototype.trim
Trim(s) ==
  LET keep == {i \in 1..Len(s) : ~IsWhitespace(s[i])}
  IN  IF keep = {} THEN <<>> ELSE SubSeq(s, Min(keep), Max(keep))

\* String.prototype.startsWith
StartsWith(s, p) == Len(s) >= Len(p) /\ SubSeq(s, 1, Len(p)) = p

\* String.prototype.includes
Includes(s, p) ==
  \E i \in 0..(Len(s) - Len(p)) : SubSeq(s, i + 1, i + Len(p)) = p

\* s.split(sep)[0] for a one-character separator
SplitFirst(s, sep) ==
  LET at == {i \in 1..Len(s) : s[i] = sep}
  IN  IF at = {} THEN s ELSE SubSeq(s, 1, Min(at) - 1)

\* String(n) for an integer n
RECURSIVE NatToString(_)
NatToString(n) ==
  IF n < 10 THEN <<Digits[n + 1]>>
  ELSE NatToString(n \div 10) \o <<Digits[(n % 10) + 1]>>

NumberToString(n) == IF n < 0 THEN <<"-">> \o NatToString(-n) ELSE NatToString(n)

----------------------------------------------------------------------------
(* JavaScript values: a tag, a string payload, a number payload and a      *)
(* boolean payload (the unused payloads are <<>>, 0 and FALSE).            *)

Undefined == [t |-> "undefined", s |-> <<>>, n |-> 0, b |-> FALSE]
Null      == [t |-> "null",      s |-> <<>>, n |-> 0, b |-> FALSE]
Str(s)    == [t |-> "string",    s |-> s,    n |-> 0, b |-> FALSE]
Num(n)    == [t |-> "number",    s |-> <<>>, n |-> n, b |-> FALSE]
Bool(b)   == [t |-> "boolean",   s |-> <<>>, n |-> 0, b |-> b]
Object    == [t |-> "object",    s |-> <<>>, n |-> 0, b |-> FALSE]

\* ToBoolean, as used by ||, && and !
Truthy(v) ==
  CASE v.t = "string"  -> v.s # <<>>
    [] v.t = "number"  -> v.n # 0
    [] v.t = "boolean" -> v.b
    [] v.t = "object"  -> TRUE
    [] OTHER           -> FALSE

\* String(v)
ToStr(v) ==
  CASE v.t = "string"    -> v.s
    [] v.t = "number"    -> NumberToString(v.n)
    [] v.t = "boolean"   -> IF v.b THEN <<"t","r","u","e">> ELSE <<"f","a","l","s","e">>
    [] v.t = "null"      -> <<"n","u","l","l">>
    [] v.t = "object"    -> <<"[","o","b","j","e","c","t"," ","O","b","j","e","c","t","]">>
    [] OTHER             -> <<"u","n","d","e","f","i","n","e","d">>

\* a || b
OrElse(a, b) == IF Truthy(a) THEN a ELSE b

----------------------------------------------------------------------------
(* String literals of video.ts.                                            *)

S_DataImagePrefix == <<"d","a","t","a",":","i","m","a","g","e","/">>
S_Base64Marker    == <<";","b","a","s","e","6","4",",">>
S_Http            == <<"h","t","t","p">>
S_ApplicationJson == <<"a","p","p","l","i","c","a","t","i","o","n","/","j","s","o","n">>
S_VideoSlash      == <<"v","i","d","e","o","/">>
S_VideoMp4        == <<"v","i","d","e","o","/","m","p","4">>
S_JsonUtf8        == S_ApplicationJson \o <<";"," ","c","h","a","r","s","e","t","=","u","t","f","-","8">>
S_5               == <<"5">>
S_10              == <<"1","0">>
S_5s              == <<"5","s">>
S_10s             == <<"1","0","s">>
S_480p            == <<"4","8","0","p">>
S_720p            == <<"7","2","0","p">>
S_1080p           == <<"1","0","8","0","p">>
S_DefaultPrompt ==
  <<"A","n","i","m","a","t","e"," ","t","h","i","s"," ","i","m","a",
    "g","e"," ","i","n","t","o"," ","a"," ","s","h","o","r","t"," ",
    "c","i","n","e","m","a","t","i","c"," ","c","l","i","p",".">>
S_PROCESSING      == <<"P","R","O","C","E","S","S","I","N","G">>
S_QUEUED          == <<"Q","U","E","U","E","D">>
S_PENDING         == <<"P","E","N","D","I","N","G">>
S_STARTING        == <<"S","T","A","R","T","I","N","G">>
S_RUNNING         == <<"R","U","N","N","I","N","G">>
S_IN_PROGRESS     == <<"I","N","_","P","R","O","G","R","E","S","S">>
S_FAILED          == <<"F","A","I","L","E","D">>
S_ERROR           == <<"E","R","R","O","R">>
S_CANCELED        == <<"C","A","N","C","E","L","E","D">>
S_CANCELLED       == <<"C","A","N","C","E","L","L","E","D">>
S_DONE            == <<"D","O","N","E">>

\* const model = "grok-imagine-image-to-video"
model == "grok-imagine-image-to-video"

\* maxWaitMs: 25_000, pollEveryMs: 2_000 at both call sites
maxWaitMs == 25000
pollEveryMs == 2000

----------------------------------------------------------------------------
(* Pure helpers of video.ts.                                               *)

\* [a-zA-Z0-9.+-]
IsSubtypeChar(c) ==
  c \in Range(LowerLetters) \cup Range(UpperLetters) \cup Range(Digits) \cup {".", "+", "-"}

\* /^data:image\/[a-zA-Z0-9.+-]+;base64,/.test(s)
MatchesDataImage(s) ==
  /\ StartsWith(s, S_DataImagePrefix)
  /\ LET rest == SubSeq(s, Len(S_DataImagePrefix) + 1, Len(s))
         stop == {i \in 1..Len(rest) : ~IsSubtypeChar(rest[i])}
         run  == IF stop = {} THEN Len(rest) ELSE Min(stop) - 1
     IN  /\ run >= 1
         /\ StartsWith(SubSeq(rest, run + 1, Len(rest)), S_Base64Marker)

\* variant: accepts any data URL, whatever its media type
isDataUrlImage_AnyDataUrl(v) ==
  IF v.t # "string" THEN FALSE ELSE StartsWith(Trim(v.s), <<"d","a","t","a",":">>)

isDataUrlImage(v) ==
  IF v.t # "string" THEN FALSE ELSE MatchesDataImage(Trim(v.s))

\* variant: a missing or empty status counts as still processing
isProcessingStatus_EmptyIsProcessing(v) ==
  LET u == ToUpperCase(ToStr(OrElse(v, Str(<<>>))))
  IN  \/ u = <<>>
      \/ u = S_PROCESSING
      \/ u = S_QUEUED
      \/ u = S_PENDING
      \/ u = S_STARTING
      \/ u = S_RUNNING
      \/ u = S_IN_PROGRESS

isProcessingStatus(v) ==
  LET u == ToUpperCase(ToStr(OrElse(v, Str(<<>>))))
  IN  \/ u = S_PROCESSING
      \/ u = S_QUEUED
      \/ u = S_PENDING
      \/ u = S_STARTING
      \/ u = S_RUNNING
      \/ u = S_IN_PROGRESS

\* variant: compares the status without toUpperCase()
isTerminalErrorStatus_CaseSensitive(v) ==
  LET u == ToStr(OrElse(v, Str(<<>>)))
  IN  u = S_FAILED \/ u = S_ERROR \/ u = S_CANCELED \/ u = S_CANCELLED

isTerminalErrorStatus(v) ==
  LET u == ToUpperCase(ToStr(OrElse(v, Str(<<>>))))
  IN  u = S_FAILED \/ u = S_ERROR \/ u = S_CANCELED \/ u = S_CANCELLED

\* json(data, status): a JSON response with the CORS headers
json(data, status) ==
  [status |-> status, kind |-> "json", contentType |-> S_JsonUtf8, data |-> data]

\* new Response(r.body, {status: 200, headers: {"Content-Type": mime}})
StreamResponse(stream, mime) ==
  [status |-> 200, kind |-> "stream", contentType |-> mime, data |-> [stream |-> stream]]

\* body?.quality === "480p" || ... ? body.quality : "480p"
Resolution(b) ==
  IF b.quality = Str(S_480p) \/ b.quality = Str(S_720p) \/ b.quality = Str(S_1080p)
  THEN b.quality.s
  ELSE S_480p

\* typeof promptRaw === "string" && promptRaw.trim() ? promptRaw.trim() : default
Prompt(b) ==
  IF b.prompt.t = "string" /\ Trim(b.prompt.s) # <<>>
  THEN Trim(b.prompt.s)
  ELSE S_DefaultPrompt

\* variant: no default for a duration that is neither number nor string
DurNum_NoDefault(d) ==
  IF d.t = "number" THEN ToStr(d)
  ELSE IF d.t = "string" THEN Trim(d.s)
  ELSE <<>>

\* durNum: String(number) | trimmed string | "5"
DurNum(d) ==
  IF d.t = "number" THEN ToStr(d)
  ELSE IF d.t = "string" THEN Trim(d.s)
  ELSE S_5

\* dur: "5s" | "10s" | null (modelled as the empty string, which is falsy too)
Dur(d) ==
  IF DurNum(d) = S_5 THEN S_5s
  ELSE IF DurNum(d) = S_10 THEN S_10s
  ELSE <<>>

\* variant: only https URLs are passed on
IsHttpString_HttpsOnly(u) == u.t = "string" /\ StartsWith(u.s, S_Http \o <<"s">>)

\* typeof maybeUrl === "string" && maybeUrl.startsWith("http")
IsHttpString(u) == u.t = "string" /\ StartsWith(u.s, S_Http)

\* variant: a body that carries an image is a new job, queue_id or not
IsPollOnly_UnlessImage(b) ==
  b.queue_id.t = "string" /\ Trim(b.queue_id.s) # <<>> /\ b.image = Undefined

\* typeof queueIdFromClient === "string" && queueIdFromClient.trim()
IsPollOnly(b) == b.queue_id.t = "string" /\ Trim(b.queue_id.s) # <<>>

\* variant: the parameters of the content type are kept
VideoMime_KeepParameters(ct) ==
  LET m == IF StartsWith(ct, S_VideoSlash) THEN ct ELSE S_VideoMp4
  IN  IF m # <<>> THEN m ELSE S_VideoMp4

\* ct.startsWith("video/") ? ct.split(";")[0] : "video/mp4", then || "video/mp4"
VideoMime(ct) ==
  LET m == IF StartsWith(ct, S_VideoSlash) THEN SplitFirst(ct, ";") ELSE S_VideoMp4
  IN  IF m # <<>> THEN m ELSE S_VideoMp4

----------------------------------------------------------------------------
(* Inputs: request bodies and provider answers.                            *)

\* typeof v
TypeOf(v) == IF v.t = "null" THEN "object" ELSE v.t

S_q1        == <<"q","1">>
S_q1Padded  == <<" ","q","1"," ">>
S_q2        == <<"q","2">>
S_Blank     == <<" "," ">>
S_SvgPadded == <<" ">> \o S_DataImagePrefix \o <<"s","v","g","+","x","m","l">> \o S_Base64Marker \o <<"P","H","N","2">>
S_TextData  == <<"d","a","t","a",":","t","e","x","t","/","p","l","a","i","n">> \o S_Base64Marker \o <<"A","A","=","=">>
S_10Padded  == <<" ","1","0"," ">>
S_4k        == <<"4","k">>
S_HiPadded  == <<" ","h","i"," ">>

QueueIdInputs  == {Undefined, Num(7), Str(S_Blank), Str(S_q1Padded)}
ImageInputs    == {Undefined, Str(S_SvgPadded), Str(S_TextData)}
DurationInputs == {Undefined, Num(5), Num(10), Num(7), Str(S_5), Str(S_10Padded),
                   Str(S_5s), Bool(TRUE)}
QualityInputs  == {Undefined, Str(S_720p), Str(S_4k)}
PromptInputs   == {Undefined, Str(S_HiPadded)}

\* request.json().catch(() => null): an unparsable body reads as null, and
\* every body?.field of null is undefined
NullBody ==
  [isNull |-> TRUE, queue_id |-> Undefined, image |-> Undefined,
   duration |-> Undefined, prompt |-> Undefined, quality |-> Undefined]

BodyFields == {"queue_id", "image", "duration", "prompt", "quality"}

PresentFields(b) == {f \in BodyFields : b[f] # Undefined}

VideoBodies ==
  {NullBody} \cup
  {b \in [isNull : {FALSE}, queue_id : QueueIdInputs, image : ImageInputs,
          duration : DurationInputs, prompt : PromptInputs, quality : QualityInputs] :
     Cardinality(PresentFields(b)) <= MaxPresentFields}

VideoEnvs == [VENICE_API_KEY : BOOLEAN]

\* answers of POST /video/queue: HTTP status, raw text, and what
\* JSON.parse(queueText) yields (parsed = FALSE when it throws)
QueueAnswers ==
  { [ok |-> FALSE, status |-> 500, text |-> "upstream error", parsed |-> FALSE, queue_id |-> Undefined],
    [ok |-> TRUE,  status |-> 200, text |-> "<html>",         parsed |-> FALSE, queue_id |-> Undefined],
    [ok |-> TRUE,  status |-> 200, text |-> "{}",             parsed |-> TRUE,  queue_id |-> Undefined],
    [ok |-> TRUE,  status |-> 200, text |-> "{queue_id:''}",  parsed |-> TRUE,  queue_id |-> Str(<<>>)],
    [ok |-> TRUE,  status |-> 200, text |-> "{queue_id:'q2'}", parsed |-> TRUE, queue_id |-> Str(S_q2)] }

S_HttpV  == S_Http \o <<":","/","/","v">>
S_HttpM  == S_Http \o <<":","/","/","m">>
S_FtpV   == <<"f","t","p",":","/","/","v">>
S_CtJsonMixed == <<"A","p","p","l","i","c","a","t","i","o","n","/","J","S","O","N",";",
                   " ","c","h","a","r","s","e","t","=","u","t","f","-","8">>
S_CtWebm      == <<"V","i","d","e","o","/","W","e","b","M",";"," ","c","o","d","e","c","s","=","v","p","9">>
S_CtOctet     == <<"a","p","p","l","i","c","a","t","i","o","n","/","o","c","t","e","t","-",
                   "s","t","r","e","a","m">>
S_queued      == <<"q","u","e","u","e","d">>
S_failed      == <<"f","a","i","l","e","d">>
S_Cancelled   == <<"C","a","n","c","e","l","l","e","d">>
S_COMPLETED   == <<"C","O","M","P","L","E","T","E","D">>

\* body of a JSON answer; j = null when r.json() rejects
NullJson == [isNull |-> TRUE, status |-> Undefined, video_url |-> Undefined, media_url |-> Undefined]
Json(st, v, m) == [isNull |-> FALSE, status |-> st, video_url |-> v, media_url |-> m]

JsonAnswer(ct, j) ==
  [ok |-> TRUE, status |-> 200, contentType |-> Str(ct), json |-> j, stream |-> "none", text |-> "json"]
BinaryAnswer(ct, stream) ==
  [ok |-> TRUE, status |-> 200, contentType |-> ct, json |-> NullJson, stream |-> stream, text |-> "binary"]

RetrieveAnswers ==
  { [ok |-> FALSE, status |-> 500, contentType |-> Str(S_ApplicationJson), json |-> NullJson,
     stream |-> "none", text |-> "upstream error"],
    JsonAnswer(S_ApplicationJson, Json(Str(S_PROCESSING), Undefined, Undefined)),
    JsonAnswer(S_CtJsonMixed,     Json(Str(S_queued), Str(S_HttpV), Undefined)),
    JsonAnswer(S_CtJsonMixed,     Json(Str(S_Cancelled), Undefined, Undefined)),
    JsonAnswer(S_ApplicationJson, Json(Str(S_failed), Str(S_HttpV), Undefined)),
    JsonAnswer(S_ApplicationJson, Json(Undefined, Undefined, Str(S_HttpM))),
    JsonAnswer(S_ApplicationJson, Json(Str(S_COMPLETED), Str(S_FtpV), Str(S_HttpM))),
    JsonAnswer(S_ApplicationJson, Json(Str(S_COMPLETED), Undefined, Undefined)),
    JsonAnswer(S_ApplicationJson, NullJson),
    BinaryAnswer(Str(S_CtWebm),   "webm-bytes"),
    BinaryAnswer(Str(S_CtOctet),  "octet-bytes"),
    BinaryAnswer(Null,            "untyped-bytes") }

\* no answer received (yet), and a call that rejected instead of answering
NoAnswer == [ok |-> FALSE, status |-> 0, contentType |-> Null, json |-> NullJson,
             stream |-> "none", text |-> "none"]
Rejected == [ok |-> FALSE, status |-> 0, contentType |-> Null, json |-> NullJson,
             stream |-> "none", text |-> "rejected"]
NoQueueAnswer == [ok |-> FALSE, status |-> 0, text |-> "none", parsed |-> FALSE,
                  queue_id |-> Undefined]

ExtraDelays == {0, MaxExtraDelayMs}

----------------------------------------------------------------------------
(* video.ts: onRequestPost and retrieveUntilDone.                          *)

Init ==
  /\ pc = "idle"
  /\ handler = "none"
  /\ env = [VENICE_API_KEY |-> FALSE]
  /\ body = NullBody
  /\ now = 0
  /\ started = 0
  /\ queueId = Undefined
  /\ calls = <<>>
  /\ polls = 0
  /\ sleeps = 0
  /\ nProcessing = 0
  /\ queueAnswer = NoQueueAnswer
  /\ lastAnswer = NoAnswer
  /\ responses = <<>>

\* return <response> from the handler
Return(resp) ==
  /\ responses' = Append(responses, resp)
  /\ pc' = "done"

\* the body of the POST to /api/v1/video/queue
QueueCall(b) ==
  [url |-> "queue", model |-> model, prompt |-> Prompt(b), duration |-> Dur(b.duration),
   image_url |-> b.image, aspect_ratio |-> "16:9", resolution |-> Resolution(b),
   audio |-> FALSE]

\* the body of the POST to /api/v1/video/retrieve
RetrieveCall(q) ==
  [url |-> "retrieve", model |-> model, queue_id |-> q, delete_media_on_completion |-> TRUE]

\* entry of retrieveUntilDone: const started = Date.now()
EnterRetrieve(q, t) ==
  /\ queueId' = q
  /\ started' = t
  /\ pc' = "loop"
  /\ UNCHANGED responses

\* onRequestPost up to its first await of a provider call
VideoRequest(e, b) ==
  /\ pc = "idle"
  /\ handler' = "video"
  /\ env' = e
  /\ body' = b
  /\ UNCHANGED <<now, polls, sleeps, nProcessing, queueAnswer, lastAnswer>>
  /\ IF ~e.VENICE_API_KEY
     THEN /\ Return(json([error |-> "Missing VENICE_API_KEY in environment secrets."], 500))
          /\ UNCHANGED <<started, queueId, calls>>
     ELSE IF IsPollOnly(b)
     THEN /\ EnterRetrieve(Str(Trim(b.queue_id.s)), now)
          /\ UNCHANGED calls
     ELSE IF ~isDataUrlImage(b.image)
     THEN /\ Return(json([error |-> "Image required as data URL (e.g. data:image/png;base64,...)",
                          receivedType |-> TypeOf(b.image)], 400))
          /\ UNCHANGED <<started, queueId, calls>>
     ELSE IF Dur(b.duration) = <<>>
     THEN /\ Return(json([error |-> "Unsupported duration. Supported: 5, 10",
                          supported |-> <<5, 10>>, received |-> b.duration], 400))
          /\ UNCHANGED <<started, queueId, calls>>
     ELSE /\ calls' = Append(calls, QueueCall(b))
          /\ pc' = "queue_wait"
          /\ UNCHANGED <<started, queueId, responses>>

\* the queue call returns: lines 154-185
QueueReply(a) ==
  /\ pc = "queue_wait"
  /\ queueAnswer' = a
  /\ UNCHANGED <<now, handler, env, body, calls, polls, sleeps, nProcessing, lastAnswer>>
  /\ IF ~a.ok
     THEN /\ Return(json([error |-> "Venice queue failed", status |-> a.status,
                          details |-> a.text], 502))
          /\ UNCHANGED <<started, queueId>>
     ELSE LET qid == IF a.parsed THEN a.queue_id ELSE Undefined
          IN  IF ~Truthy(qid)
              THEN /\ Return(json([error |-> "Venice queue response missing queue_id",
                                   details |-> a.text], 502))
                   /\ UNCHANGED <<started, queueId>>
              ELSE EnterRetrieve(qid, now)

\* while (Date.now() - started < maxWaitMs) { fetch(retrieve) ...
PollSend ==
  /\ pc = "loop"
  /\ now - started < maxWaitMs
  /\ calls' = Append(calls, RetrieveCall(queueId))
  /\ polls' = polls + 1
  /\ pc' = "poll_wait"
  /\ UNCHANGED <<handler, env, body, now, started, queueId, sleeps, nProcessing,
                 queueAnswer, lastAnswer, responses>>

\* variant: the 202 echoes the client's queue_id field instead of the id polled
Timeout_EchoesClientField ==
  /\ pc = "loop"
  /\ ~(now - started < maxWaitMs)
  /\ Return(json([status |-> Str(S_PROCESSING), queue_id |-> body.queue_id,
                  message |-> "Still generating. Poll with {queue_id}."], 202))
  /\ UNCHANGED <<handler, env, body, now, started, queueId, calls, polls, sleeps,
                 nProcessing, queueAnswer, lastAnswer>>

\* the loop condition fails: 202 with the queue id
Timeout ==
  /\ pc = "loop"
  /\ ~(now - started < maxWaitMs)
  /\ Return(json([status |-> Str(S_PROCESSING), queue_id |-> queueId,
                  message |-> "Still generating. Poll with {queue_id}."], 202))
  /\ UNCHANGED <<handler, env, body, now, started, queueId, calls, polls, sleeps,
                 nProcessing, queueAnswer, lastAnswer>>

\* the retrieve call returns: lines 215-262
PollReply(a) ==
  /\ pc = "poll_wait"
  /\ lastAnswer' = a
  /\ UNCHANGED <<now, handler, env, body, started, queueId, calls, polls, sleeps,
                 queueAnswer>>
  /\ IF ~a.ok
     THEN /\ Return(json([error |-> "Venice retrieve failed", status |-> a.status,
                          details |-> a.text, queue_id |-> queueId], 502))
          /\ UNCHANGED nProcessing
     ELSE LET ct == ToLowerCase(ToStr(OrElse(a.contentType, Str(<<>>))))
          IN  IF Includes(ct, S_ApplicationJson)
              THEN LET j        == a.json
                       status   == j.status
                       maybeUrl == OrElse(j.video_url, j.media_url)
                   IN  IF isProcessingStatus(status)
                       THEN /\ pc' = "sleeping"
                            /\ nProcessing' = nProcessing + 1
                            /\ UNCHANGED responses
                       ELSE /\ UNCHANGED nProcessing
                            /\ IF IsHttpString(maybeUrl)
                               THEN Return(json([videoUrl |-> maybeUrl.s, queue_id |-> queueId,
                                                 status |-> OrElse(status, Str(S_DONE))], 200))
                               ELSE IF isTerminalErrorStatus(status)
                               THEN Return(json([error |-> "Venice reported terminal failure",
                                                 queue_id |-> queueId, details |-> j], 502))
                               ELSE Return(json([error |-> "Venice retrieve returned unexpected JSON",
                                                 queue_id |-> queueId, details |-> j], 502))
              ELSE /\ Return(StreamResponse(a.stream, VideoMime(ct)))
                   /\ UNCHANGED nProcessing

\* variant: the sleep lasts half the interval
SleepDone_HalfInterval(extra) ==
  /\ pc = "sleeping"
  /\ now' = now + (pollEveryMs \div 2) + extra
  /\ sleeps' = sleeps + 1
  /\ pc' = "loop"
  /\ UNCHANGED <<handler, env, body, started, queueId, calls, polls, nProcessing,
                 queueAnswer, lastAnswer, responses>>

\* await sleep(pollEveryMs); continue -- the clock read at the loop head is
\* at least pollEveryMs later than the previous one
SleepDone(extra) ==
  /\ pc = "sleeping"
  /\ now' = now + pollEveryMs + extra
  /\ sleeps' = sleeps + 1
  /\ pc' = "loop"
  /\ UNCHANGED <<handler, env, body, started, queueId, calls, polls, nProcessing,
                 queueAnswer, lastAnswer, responses>>

\* a provider call rejects (network error): caught by the handler's try/catch
VideoFetchThrows ==
  /\ handler = "video"
  /\ pc \in {"queue_wait", "poll_wait"}
  /\ Return(json([error |-> "Unhandled server error", details |-> "fetch failed"], 500))
  /\ lastAnswer' = IF pc = "poll_wait" THEN Rejected ELSE lastAnswer
  /\ UNCHANGED <<handler, env, body, now, started, queueId, calls, polls, sleeps,
                 nProcessing, queueAnswer>>

VideoNext ==
  \/ \E e \in VideoEnvs, b \in VideoBodies : VideoRequest(e, b)
  \/ \E a \in QueueAnswers : QueueReply(a)
  \/ PollSend
  \/ Timeout
  \/ \E a \in RetrieveAnswers : PollReply(a)
  \/ \E extra \in ExtraDelays : SleepDone(extra)
  \/ VideoFetchThrows

----------------------------------------------------------------------------
(* chat.ts: onRequestPost, callDeepSeekChat and callVeniceChat.            *)

S_uncensored  == <<"u","n","c","e","n","s","o","r","e","d">>
S_Uncensored  == <<"U","n","c","e","n","s","o","r","e","d">>
S_general     == <<"g","e","n","e","r","a","l">>
S_paid        == <<"p","a","i","d">>
S_Paid        == <<"P","a","i","d">>
S_unpaid      == <<"u","n","p","a","i","d">>
S_cancelled   == <<"c","a","n","c","e","l","l","e","d">>
S_hello       == <<"h","e","l","l","o">>

TierInputs      == {Undefined, Str(S_general), Str(S_uncensored), Str(S_Uncensored)}
PaymentInputs   == {Undefined, Str(S_paid), Str(S_Paid), Str(S_unpaid), Str(S_cancelled)}
MessageInputs   == {Undefined, Str(S_Blank), Str(S_HiPadded)}
CharacterInputs == {Undefined, Null, Str(S_hello), Object}

\* what request.json() yields: it rejects ("invalid"), or returns null, a
\* primitive, or an object with the fields below
ChatBodies ==
  [kind : {"invalid", "null", "primitive"}, tier : {Undefined}, paymentStatus : {Undefined},
   message : {Undefined}, character : {Undefined}]
  \cup
  [kind : {"object"}, tier : TierInputs, paymentStatus : PaymentInputs,
   message : MessageInputs, character : CharacterInputs]

ChatEnvs == [DEEPSEEK_API_KEY : BOOLEAN, VENICE_API_KEY : BOOLEAN]

\* answers of the chat-completion backends: data?.choices?.[0]?.message?.content
ChatAnswers ==
  { [ok |-> FALSE, status |-> 500, content |-> Undefined],
    [ok |-> TRUE,  status |-> 200, content |-> Undefined],
    [ok |-> TRUE,  status |-> 200, content |-> Str(<<>>)],
    [ok |-> TRUE,  status |-> 200, content |-> Str(S_hello)] }

\* variant: the tier is compared without regard to letter case
Tier_IgnoringCase(b) ==
  IF b.tier.t = "string" /\ ToLowerCase(b.tier.s) = S_uncensored
  THEN "uncensored" ELSE "general"

\* const tier = body.tier === "uncensored" ? "uncensored" : "general"
Tier(b) == IF b.tier = Str(S_uncensored) THEN "uncensored" ELSE "general"

\* the catch block of the handler
ServerError(detail) == json([error |-> "Server error.", detail |-> detail], 500)

DeepSeekCall == [url |-> "https://api.deepseek.com/chat/completions", model |-> "deepseek-chat"]
VeniceCall   == [url |-> "https://api.venice.ai/api/v1/chat/completions", model |-> "venice-uncensored"]

\* callDeepSeekChat / callVeniceChat up to the fetch
CallBackend(key, call, missing) ==
  IF ~key
  THEN /\ Return(ServerError(missing))
       /\ UNCHANGED calls
  ELSE /\ calls' = Append(calls, call)
       /\ pc' = "chat_wait"
       /\ UNCHANGED responses

\* onRequestPost up to the await of the backend call
ChatRequest(e, b) ==
  /\ pc = "idle"
  /\ handler' = "chat"
  /\ env' = e
  /\ body' = b
  /\ UNCHANGED <<now, started, queueId, polls, sleeps, nProcessing, queueAnswer,
                 lastAnswer>>
  /\ IF b.kind = "invalid"
     THEN /\ Return(ServerError("Unexpected token"))
          /\ UNCHANGED calls
     ELSE IF b.kind # "object"
     THEN /\ Return(json([error |-> "Invalid body."], 400))
          /\ UNCHANGED calls
     ELSE IF Tier(b) = "uncensored" /\ b.paymentStatus # Str(S_paid)
     THEN /\ Return(json([error |-> "Payment not completed. Uncensored is locked.",
                          code |-> "PAYMENT_REQUIRED"], 402))
          /\ UNCHANGED calls
     ELSE IF b.message.t # "string" \/ Trim(b.message.s) = <<>>
     THEN /\ Return(json([error |-> "Missing message."], 400))
          /\ UNCHANGED calls
     ELSE IF ~Truthy(b.character) \/ TypeOf(b.character) # "object"
     THEN /\ Return(json([error |-> "Missing character."], 400))
          /\ UNCHANGED calls
     ELSE IF Tier(b) = "general"
     THEN CallBackend(e.DEEPSEEK_API_KEY, DeepSeekCall, "Missing DEEPSEEK_API_KEY")
     ELSE CallBackend(e.VENICE_API_KEY, VeniceCall, "Missing VENICE_API_KEY")

\* the backend answers: the rest of callDeepSeekChat / callVeniceChat and
\* lines 72 and 75 of the handler
ChatReply(a) ==
  /\ handler = "chat"
  /\ pc = "chat_wait"
  /\ UNCHANGED <<handler, env, body, now, started, queueId, calls, polls, sleeps,
                 nProcessing, queueAnswer, lastAnswer>>
  /\ IF ~a.ok
     THEN Return(ServerError("backend error"))
     ELSE IF ~Truthy(a.content)
     THEN Return(ServerError("empty response"))
     ELSE Return(json([reply |-> ToStr(a.content), tier |-> Tier(body),
                       model |-> calls[Len(calls)].model], 200))

\* the backend call rejects, or res.json() rejects
ChatFetchThrows ==
  /\ handler = "chat"
  /\ pc = "chat_wait"
  /\ Return(ServerError("fetch failed"))
  /\ UNCHANGED <<handler, env, body, now, started, queueId, calls, polls, sleeps,
                 nProcessing, queueAnswer, lastAnswer>>

ChatNext ==
  \/ \E e \in ChatEnvs, b \in ChatBodies : ChatRequest(e, b)
  \/ \E a \in ChatAnswers : ChatReply(a)
  \/ ChatFetchThrows

Next == VideoNext \/ ChatNext

Spec == Init /\ [][Next]_vars

----------------------------------------------------------------------------
(* retrieveUntilDone on its own: an invocation entered from a resume        *)
(* request, with opts.queueId the trimmed queue_id of the body.            *)

ResumeBodies ==
  {b \in VideoBodies : IsPollOnly(b) /\ PresentFields(b) = {"queue_id"}}

RetrieveInit ==
  /\ pc = "loop"
  /\ handler = "video"
  /\ env = [VENICE_API_KEY |-> TRUE]
  /\ body \in ResumeBodies
  /\ now = 0
  /\ started = now
  /\ queueId = Str(Trim(body.queue_id.s))
  /\ calls = <<>>
  /\ polls = 0
  /\ sleeps = 0
  /\ nProcessing = 0
  /\ queueAnswer = NoQueueAnswer
  /\ lastAnswer = NoAnswer
  /\ responses = <<>>

RetrieveNext ==
  \/ PollSend
  \/ Timeout
  \/ \E a \in RetrieveAnswers : PollReply(a)
  \/ \E extra \in ExtraDelays : SleepDone(extra)
  \/ VideoFetchThrows

\* every awaited fetch settles and every timer fires, so a step that is
\* possible is eventually taken
RetrieveSpec == RetrieveInit /\ [][RetrieveNext]_vars /\ WF_vars(RetrieveNext)

----------------------------------------------------------------------------
(* Vocabulary of the properties, stated on inputs and outputs only.        *)

Done == pc = "done"
Resp == responses[1]
RespHas(f) == f \in DOMAIN Resp.data

QueueCallsMade    == {i \in 1..Len(calls) : calls[i].url = "queue"}
RetrieveCallsMade == {i \in 1..Len(calls) : calls[i].url = "retrieve"}

\* the request was received by the video handler
VideoStarted == handler = "video" /\ pc # "idle"

\* a string with at least one non-whitespace character
NonBlankString(v) == v.t = "string" /\ \E i \in 1..Len(v.s) : ~IsWhitespace(v.s[i])

\* the value, with surrounding whitespace removed, reads
\* data:image/<subtype>;base64,<anything>
DataUrlShape(v) ==
  /\ v.t = "string"
  /\ LET t == Trim(v.s)
         p == Len(S_DataImagePrefix)
     IN  \E k \in 1..Len(t) :
           /\ SubSeq(t, 1, p) = S_DataImagePrefix
           /\ \A i \in (p + 1)..(p + k) : i <= Len(t) /\ IsSubtypeChar(t[i])
           /\ SubSeq(t, p + k + 1, p + k + Len(S_Base64Marker)) = S_Base64Marker

ProcessingVocabulary ==
  {S_PROCESSING, S_QUEUED, S_PENDING, S_STARTING, S_RUNNING, S_IN_PROGRESS}
FailureVocabulary == {S_FAILED, S_ERROR, S_CANCELED, S_CANCELLED}

\* the latest poll was answered (the call did not reject)
Answered == lastAnswer.text \notin {"none", "rejected"}

\* the latest poll was answered with success and a JSON content type
JsonAnswered ==
  /\ Answered
  /\ lastAnswer.ok
  /\ lastAnswer.contentType.t = "string"
  /\ Includes(ToLowerCase(lastAnswer.contentType.s), S_ApplicationJson)

\* ... with success and a body that is not JSON
BinaryAnswered ==
  /\ Answered
  /\ lastAnswer.ok
  /\ ~(/\ lastAnswer.contentType.t = "string"
       /\ Includes(ToLowerCase(lastAnswer.contentType.s), S_ApplicationJson))

StatusIn(vocabulary) ==
  /\ lastAnswer.json.status.t = "string"
  /\ ToUpperCase(lastAnswer.json.status.s) \in vocabulary

\* the media type of a Content-Type header: lower case, parameters dropped
MediaType(h) == IF h.t = "string" THEN ToLowerCase(SplitFirst(h.s, ";")) ELSE <<>>

\* the result URL the answer carries: video_url, else media_url
CarriedUrl ==
  IF Truthy(lastAnswer.json.video_url) THEN lastAnswer.json.video_url
  ELSE lastAnswer.json.media_url

----------------------------------------------------------------------------
(* C1: duration mapping.                                                   *)

NewJobMode == VideoStarted /\ body.queue_id = Undefined /\ DataUrlShape(body.image)

SubmittedWith(token) ==
  /\ QueueCallsMade = {1}
  /\ calls[1].duration = token

RejectedDuration ==
  /\ Done
  /\ Resp.status = 400
  /\ RespHas("supported")
  /\ Resp.data.supported = <<5, 10>>
  /\ QueueCallsMade = {}

\* C1 as claimed: in new-job mode, duration 5 or "5" is submitted with token
\* "5s", 10 or "10" with "10s", and every other duration (another number or
\* string, another type, absent) gets 400 with supported = [5, 10] and no
\* submission call.  (Read with the API key configured, as the claim takes a
\* deployed handler for granted.)
C1_AsClaimed ==
  (NewJobMode /\ env.VENICE_API_KEY) =>
    IF body.duration \in {Num(5), Str(S_5)} THEN SubmittedWith(S_5s)
    ELSE IF body.duration \in {Num(10), Str(S_10)} THEN SubmittedWith(S_10s)
    ELSE RejectedDuration

\* the token the handler owes a duration: numbers 5 and 10, strings that trim
\* to "5" and "10", and "5s" as the default of every value that is neither a
\* number nor a string
C1_Token(d) ==
  IF d.t = "number"
  THEN (IF d.n = 5 THEN S_5s ELSE IF d.n = 10 THEN S_10s ELSE <<>>)
  ELSE IF d.t = "string"
  THEN (IF Trim(d.s) = S_5 THEN S_5s ELSE IF Trim(d.s) = S_10 THEN S_10s ELSE <<>>)
  ELSE S_5s

\* C1 amended: with the API key configured, in new-job mode, a duration that
\* is the number 5 or 10, a string that trims to "5" or "10", or neither a
\* number nor a string (absent included, defaulting to 5) is submitted with
\* its token; every other number or string gets 400 with supported = [5, 10]
\* and no submission call.
C1_DurationMapping ==
  (NewJobMode /\ env.VENICE_API_KEY) =>
    IF C1_Token(body.duration) # <<>>
    THEN SubmittedWith(C1_Token(body.duration))
    ELSE RejectedDuration

C1_Witness ==
  /\ NewJobMode /\ env.VENICE_API_KEY
  /\ body.duration = Str(S_10Padded)
  /\ SubmittedWith(S_10s)

----------------------------------------------------------------------------
(* C2: N processing answers, then a binary body.                           *)

RelaysBinary ==
  /\ Done
  /\ Len(responses) = 1
  /\ Resp.status = 200
  /\ Resp.kind = "stream"
  /\ Resp.data.stream = lastAnswer.stream
  /\ sleeps = nProcessing
  /\ polls = nProcessing + 1

\* C2 as claimed: when the first N polls are answered with a processing
\* status and poll N+1 with a non-JSON binary body, there are exactly N sleeps
\* and N+1 polls and the 200 response relays the body with the provider's
\* media type as its Content-Type.
C2_AsClaimed ==
  (handler = "video" /\ BinaryAnswered) =>
    /\ RelaysBinary
    /\ Resp.contentType = MediaType(lastAnswer.contentType)

\* C2 amended: ... the 200 response relays the body, and its Content-Type is
\* the provider's media type when that type starts with "video/", and
\* "video/mp4" otherwise.
C2_BinaryRelay ==
  (handler = "video" /\ BinaryAnswered) =>
    /\ RelaysBinary
    /\ Resp.contentType =
         IF StartsWith(MediaType(lastAnswer.contentType), S_VideoSlash)
         THEN MediaType(lastAnswer.contentType)
         ELSE S_VideoMp4

C2_Witness ==
  /\ handler = "video" /\ BinaryAnswered /\ Done
  /\ nProcessing = 3 /\ sleeps = 3 /\ polls = 4
  /\ lastAnswer.contentType = Str(S_CtWebm)
  /\ Resp.contentType = <<"v","i","d","e","o","/","w","e","b","m">>

----------------------------------------------------------------------------
(* C3: the time budget runs out.                                           *)

\* every poll of the invocation was answered with a processing status and
\* the invocation has ended
OnlyProcessingSeen ==
  /\ handler = "video"
  /\ Done
  /\ polls >= 1
  /\ nProcessing = polls

\* C3: if every poll is answered with a JSON processing status until the
\* elapsed time reaches maxWaitMs, the response is 202 with status
\* "PROCESSING" and the queue id that was polled, and carries neither a video
\* URL nor a binary artifact.
C3_TimeoutIs202 ==
  OnlyProcessingSeen =>
    /\ now - started >= maxWaitMs
    /\ Len(responses) = 1
    /\ Resp.status = 202
    /\ Resp.kind = "json"
    /\ Resp.data.status = Str(S_PROCESSING)
    /\ \A i \in RetrieveCallsMade : calls[i].queue_id = Resp.data.queue_id
    /\ ~RespHas("videoUrl")
    /\ ~RespHas("stream")

C3_Witness ==
  /\ OnlyProcessingSeen
  /\ polls = 13
  /\ Resp.status = 202
  /\ Resp.data.queue_id = Str(S_q1)
  /\ body.queue_id = Str(S_q1Padded)

----------------------------------------------------------------------------
(* C4: terminal failure statuses.                                          *)

TerminalFailureAnswered == handler = "video" /\ JsonAnswered /\ StatusIn(FailureVocabulary)

EndsWith502Embedding ==
  /\ Done
  /\ Len(responses) = 1
  /\ Resp.status = 502
  /\ RespHas("details")
  /\ Resp.data.error = "Venice reported terminal failure"
  /\ Resp.data.details = lastAnswer.json
  /\ Len(calls) = polls + Cardinality(QueueCallsMade)

\* C4 as claimed: whenever a poll is answered with successful JSON whose
\* status is FAILED, ERROR, CANCELED or CANCELLED in any letter case, the
\* invocation ends with a 502 embedding the provider's JSON and issues no
\* further poll.
C4_AsClaimed == TerminalFailureAnswered => EndsWith502Embedding

\* C4 amended: ... whose status is in the terminal-failure vocabulary and
\* which carries no result URL (video_url, else media_url) that is a string
\* starting with "http", the invocation ends with a 502 embedding the
\* provider's JSON and issues no further poll.
C4_TerminalFailure ==
  (/\ TerminalFailureAnswered
   /\ ~(CarriedUrl.t = "string" /\ StartsWith(CarriedUrl.s, S_Http)))
    => EndsWith502Embedding

C4_Witness ==
  /\ TerminalFailureAnswered
  /\ lastAnswer.json.status = Str(S_Cancelled)
  /\ polls = 2
  /\ EndsWith502Embedding

----------------------------------------------------------------------------
(* C5: resume mode.                                                        *)

ResumeRequest == VideoStarted /\ NonBlankString(body.queue_id)

\* C5 as claimed: for a body with a non-blank string queue_id, every outbound
\* call is a retrieve call carrying exactly that queue_id and the fixed model
\* identifier, and no queue call is made, whatever else the body carries.
C5_AsClaimed ==
  ResumeRequest =>
    \A i \in 1..Len(calls) :
      /\ calls[i].url = "retrieve"
      /\ calls[i].queue_id = body.queue_id
      /\ calls[i].model = "grok-imagine-image-to-video"

\* C5 amended: ... every outbound call is a retrieve call carrying that
\* queue_id with its leading and trailing whitespace removed and the fixed
\* model identifier, and no queue call is made.
C5_ResumePollsOnly ==
  ResumeRequest =>
    \A i \in 1..Len(calls) :
      /\ calls[i].url = "retrieve"
      /\ calls[i].queue_id = Str(Trim(body.queue_id.s))
      /\ calls[i].model = "grok-imagine-image-to-video"

C5_Witness ==
  /\ ResumeRequest
  /\ body.queue_id = Str(S_q1Padded)
  /\ DataUrlShape(body.image)
  /\ body.duration = Num(10)
  /\ Len(calls) = 3
  /\ calls[3].queue_id = Str(S_q1)

----------------------------------------------------------------------------
(* C6: image validation precedes every provider call.                      *)

Returns400WithoutCalls ==
  /\ Done
  /\ Len(responses) = 1
  /\ Resp.status = 400
  /\ calls = <<>>

\* C6 as claimed: every request whose image is missing or is not a base64
\* image data URL gets 400 and no outbound request (queue or retrieve).
\* (Read with the API key configured, as the claim takes a deployed handler
\* for granted.)
C6_AsClaimed ==
  (VideoStarted /\ env.VENICE_API_KEY /\ ~DataUrlShape(body.image))
    => Returns400WithoutCalls

\* C6 amended: with the API key configured, every request that carries no
\* non-blank string queue_id and whose image is missing or is not a base64
\* image data URL (a string that, trimmed, starts with
\* data:image/<subtype>;base64,) gets 400 and no outbound request.
C6_ImageValidatedFirst ==
  (/\ VideoStarted
   /\ env.VENICE_API_KEY
   /\ ~NonBlankString(body.queue_id)
   /\ ~DataUrlShape(body.image))
    => Returns400WithoutCalls

C6_Witness ==
  /\ VideoStarted
  /\ env.VENICE_API_KEY
  /\ body.image = Str(S_TextData)
  /\ body.duration = Num(5)
  /\ Returns400WithoutCalls
  /\ Resp.data.receivedType = "string"

----------------------------------------------------------------------------
(* C7: a direct result URL.                                                *)

UrlAnswered ==
  /\ handler = "video"
  /\ JsonAnswered
  /\ ~lastAnswer.json.isNull
  /\ (lastAnswer.json.video_url.t = "string" \/ lastAnswer.json.media_url.t = "string")

EndsWith200Url(urls) ==
  /\ Done
  /\ Len(responses) = 1
  /\ Resp.status = 200
  /\ RespHas("videoUrl")
  /\ Resp.data.videoUrl \in urls
  /\ Len(calls) = polls + Cardinality(QueueCallsMade)

\* C7 as claimed: whenever a poll is answered with successful JSON carrying
\* video_url or media_url, whatever the status, the invocation ends at that
\* poll with a 200 carrying that URL unchanged.
C7_AsClaimed ==
  UrlAnswered =>
    EndsWith200Url({u.s : u \in {v \in {lastAnswer.json.video_url, lastAnswer.json.media_url} :
                                   v.t = "string"}})

\* C7 amended: whenever a poll is answered with successful JSON whose status
\* is not in the processing vocabulary and whose result URL (video_url if
\* truthy, else media_url) is a string starting with "http", the invocation
\* ends at that poll with a 200 carrying that URL unchanged.
C7_DirectUrl ==
  (/\ handler = "video"
   /\ JsonAnswered
   /\ ~StatusIn(ProcessingVocabulary)
   /\ CarriedUrl.t = "string"
   /\ SubSeq(CarriedUrl.s, 1, 4) = S_Http)
    => EndsWith200Url({CarriedUrl.s})

C7_Witness ==
  /\ handler = "video"
  /\ JsonAnswered
  /\ lastAnswer.json.status = Str(S_failed)
  /\ polls = 2
  /\ sleeps = 1
  /\ EndsWith200Url({S_HttpV})

----------------------------------------------------------------------------
(* C8: only a processing status is retried.                                *)

ProcessingAnswered == JsonAnswered /\ StatusIn(ProcessingVocabulary)

\* C8: a poll is followed by another poll only if it was answered with
\* successful JSON whose status is in the processing vocabulary; a poll
\* answered with a non-success HTTP status ends the invocation with a 502 and
\* no further outbound call; a submission answered with a non-success HTTP
\* status ends it with a 502, without any poll or second submission.
C8_OnlyProcessingRetried ==
  handler = "video" =>
    /\ (polls >= 2 /\ pc = "poll_wait") => ProcessingAnswered
    /\ (polls >= 1 /\ pc \in {"loop", "sleeping"}) => ProcessingAnswered
    /\ nProcessing >= polls - 1
    /\ (Answered /\ ~lastAnswer.ok) =>
         /\ Done
         /\ Len(responses) = 1
         /\ Resp.status = 502
         /\ Len(calls) = polls + Cardinality(QueueCallsMade)
         /\ RetrieveCallsMade # {}
         /\ calls[Len(calls)].url = "retrieve"
    /\ (queueAnswer.text # "none" /\ ~queueAnswer.ok) =>
         /\ Done
         /\ Len(responses) = 1
         /\ Resp.status = 502
         /\ Resp.data.status = queueAnswer.status
         /\ Len(calls) = 1
         /\ calls[1].url = "queue"
         /\ polls = 0

C8_Witness ==
  /\ handler = "video"
  /\ Answered /\ ~lastAnswer.ok
  /\ polls = 3
  /\ Cardinality(QueueCallsMade) = 1
  /\ Resp.status = 502

----------------------------------------------------------------------------
(* C9: the loop terminates within ceil(maxWaitMs / pollEveryMs) polls.     *)

MaxPolls == (maxWaitMs + pollEveryMs - 1) \div pollEveryMs

\* retrieveUntilDone was entered
Retrieving == handler = "video" /\ queueId # Undefined

\* C9: provided every provider call returns and every sleep advances the
\* clock by at least pollEveryMs, every invocation of retrieveUntilDone
\* eventually returns exactly one response, after at least one and at most
\* ceil(maxWaitMs / pollEveryMs) = 13 polls, whatever the provider answers.
C9_BoundedPolling ==
  /\ (Retrieving ~> Done)
  /\ [](Retrieving => polls <= MaxPolls /\ MaxPolls = 13 /\ Len(responses) <= 1)
  /\ []((Retrieving /\ Done) => polls >= 1 /\ Len(responses) = 1)

C9_Witness ==
  /\ Retrieving /\ Done
  /\ polls = 13
  /\ Answered /\ BinaryAnswered

----------------------------------------------------------------------------
(* C10: chat tier routing.                                                 *)

ChatStarted == handler = "chat" /\ pc # "idle"

VeniceCalled   == \E i \in 1..Len(calls) : calls[i].model = "venice-uncensored"
DeepSeekCalled == \E i \in 1..Len(calls) : calls[i].model = "deepseek-chat"

TierIsUncensored == body.kind = "object" /\ body.tier = Str(S_uncensored)
IsPaid == body.paymentStatus = Str(S_paid)

\* C10: the uncensored (Venice) backend is called only for tier "uncensored"
\* with paymentStatus "paid"; tier "uncensored" with any other or absent
\* paymentStatus gets 402 PAYMENT_REQUIRED and no outbound call; a request
\* whose tier is not "uncensored" is routed to the general (DeepSeek) backend
\* only.
C10_TierRouting ==
  ChatStarted =>
    /\ VeniceCalled => (TierIsUncensored /\ IsPaid)
    /\ (TierIsUncensored /\ ~IsPaid) =>
         /\ Done
         /\ Len(responses) = 1
         /\ Resp.status = 402
         /\ Resp.data.code = "PAYMENT_REQUIRED"
         /\ calls = <<>>
    /\ (body.kind = "object" /\ ~TierIsUncensored) =>
         /\ ~VeniceCalled
         /\ (/\ NonBlankString(body.message)
             /\ body.character = Object
             /\ env.DEEPSEEK_API_KEY) => calls = <<DeepSeekCall>>
    /\ (TierIsUncensored /\ IsPaid) => ~DeepSeekCalled

C10_Witness ==
  /\ ChatStarted
  /\ TierIsUncensored /\ IsPaid
  /\ VeniceCalled
  /\ Done
  /\ Resp.status = 200

====
